---------------------------- MODULE Spec2Model ----------------------------
(***************************************************************************)
(* A model of raydium/swap.py: the RaydiumSwap client.                     *)
(*                                                                         *)
(* The client is stateless: every public operation is one synchronous      *)
(* call that issues HTTP requests, validates the answers and returns.      *)
(* The state of the model is the client's configuration, the call in       *)
(* progress (its arguments and what each remote endpoint answers during    *)
(* it) and what the call did: the value it returned, the requests it       *)
(* sent, the response fields it read and the log records it wrote.         *)
(*                                                                         *)
(* Python values: False, None and "a value" are kept apart (F, N, V(x));   *)
(* an exception is the mode "raise" of an effect, a call that never        *)
(* returns is the mode "block".  Fractions (price impact) are in percent.  *)
(* float(a) / float(b) is the exact quotient as a reduced fraction <<n,d>>:*)
(* the amounts modelled are below 2^53, so float() of them is exact and    *)
(* the double the code returns is the rounding of that quotient.           *)
(***************************************************************************)
EXTENDS Integers, Sequences, FiniteSets, TLC

VARIABLES
    price_impact_max,   \* self._price_impact_max, in percent
    slippage_bps,       \* self._slippage_bps
    timeout,            \* self._timeout
    pc,                 \* "idle" | "done" | "blocked"
    call,               \* the operation called and its arguments
    net,                \* what each endpoint answers during the call
    ret,                \* the value the call returned
    requests,           \* the HTTP requests the call issued, in order
    reads,              \* the response fields the call read, in order
    logs,               \* the log records the call wrote, in order
    compute_resp,       \* what _compute_routes returned during the call
    prev                \* the previous call: its operation and result kind

vars == <<price_impact_max, slippage_bps, timeout, pc, call, net, ret,
          requests, reads, logs, compute_resp, prev>>

---------------------------------------------------------------------------
(* Bounds and program constants *)

MaxHops == 2

DefaultPriceImpactMax == 10
DefaultSlippageBps == 10
DefaultTimeout == 10
DefaultAmountIn == 1000000000
StatusOk == 200

PriceImpactMaxChoices == {DefaultPriceImpactMax, 5}
PriceImpacts == {5, 10, 15}
PoolIds == {"poolA", "poolB"}
AmountPairs == {<<1000000000, 8000000>>, <<3, 2>>, <<0, 4>>, <<1, 0>>}
DefaultFee == "15000"

---------------------------------------------------------------------------
(* Python values and effects *)

F == [t |-> "False"]
N == [t |-> "None"]
V(x) == [t |-> "val", v |-> x]
NullV == [null |-> TRUE]
IsNull(x) == "null" \in DOMAIN x
Has(obj, k) == k \in DOMAIN obj

Eff(mode, val, rq, rd, lg) ==
    [mode |-> mode, val |-> val, reqs |-> rq, reads |-> rd, logs |-> lg]
Ok(val) == Eff("ok", val, <<>>, <<>>, <<>>)
Raise == Eff("raise", N, <<>>, <<>>, <<>>)

\* y run after x: what both did, with y's outcome
Combine(x, y) ==
    [y EXCEPT !.reqs = x.reqs \o @, !.reads = x.reads \o @,
              !.logs = x.logs \o @]

\* statement sequencing: e, and when e neither raised nor blocked, the rest
\* of the code K on e's value.  (Each effect is bound once by a quantifier.)
Then(e, K(_)) ==
    CHOOSE r \in
      {IF x.mode # "ok" THEN x
       ELSE CHOOSE c \in {Combine(x, y) : y \in {K(x.val)}} : TRUE :
         x \in {e}} : TRUE

WithRead(e, endpoint, field) ==
    [e EXCEPT !.reads = <<<<endpoint, field>>>> \o @]

LogRec(level, src) == [level |-> level, src |-> src]

\* try: ... except Exception as e: self._logger.error(...)   (no return)
Except(e, src) ==
    CHOOSE r \in
      {IF x.mode = "raise"
       THEN [x EXCEPT !.mode = "ok", !.val = N,
                      !.logs = Append(@, LogRec("error", src))]
       ELSE x : x \in {e}} : TRUE

---------------------------------------------------------------------------
(* What a remote endpoint may answer.  A response is a transport error, no  *)
(* answer at all, or an HTTP answer with a status and, when the body is     *)
(* JSON, its decoded object.  A JSON object is a function on the keys it    *)
(* holds, so a missing key is a key outside its DOMAIN.                     *)

TransportError == [kind |-> "error"]
NeverAnswers == [kind |-> "hang"]
HttpJson(status, obj) == [kind |-> "http", status_code |-> status, json |-> obj]
HttpText(status) == [kind |-> "http", status_code |-> status]

Envelope(id, data) == [id |-> id, success |-> TRUE, data |-> data]

RECURSIVE Digits(_)
\* the decimal string of n, as the sequence of its digits ("0" for 0)
Digits(n) == IF n < 10 THEN <<n>> ELSE Append(Digits(n \div 10), n % 10)

\* the answers every endpoint may give whatever its payload
CommonShapes ==
    {"error", "hang", "status500", "undecodable", "no_success",
     "unsuccessful", "unsuccessful_no_id", "no_data"}

CommonResponse(shape, id) ==
    CASE shape = "error" -> TransportError
      [] shape = "hang" -> NeverAnswers
      [] shape = "status500" ->
            HttpJson(500, [id |-> id, success |-> FALSE])
      [] shape = "undecodable" -> HttpText(StatusOk)
      [] shape = "no_success" -> HttpJson(StatusOk, [id |-> id])
      [] shape = "unsuccessful" ->
            HttpJson(StatusOk, [id |-> id, success |-> FALSE])
      [] shape = "unsuccessful_no_id" ->
            HttpJson(StatusOk, [success |-> FALSE])
      [] shape = "no_data" ->
            HttpJson(StatusOk, [id |-> id, success |-> TRUE])

\* Quote endpoint -------------------------------------------------------
Hop(p) == [poolId |-> p, inputMint |-> "mintA", outputMint |-> "mintB"]

RoutePlans ==
    UNION {[1..n -> {Hop(p) : p \in PoolIds}] : n \in 0..MaxHops}

SamplePlan == <<Hop("poolA")>>
SampleAmounts == <<1000000000, 8000000>>

QuoteShapes ==
    CommonShapes \cup
    {"unsuccessful_data", "null_data", "no_impact", "no_plan", "no_output",
     "bad_hop"}

\* well-formed quotes: every route plan, and every amount pair, at every
\* price impact; and one quote of every other shape
QuoteInputs ==
    {<<"ok", ap, pi, plan>> :
        ap \in {SampleAmounts}, pi \in PriceImpacts, plan \in RoutePlans}
    \cup {<<"ok", ap, pi, plan>> :
        ap \in AmountPairs, pi \in PriceImpacts, plan \in {SamplePlan}}
    \cup {<<s, SampleAmounts, pi, SamplePlan>> :
        s \in QuoteShapes, pi \in {15}}

QuoteData(a, b, pi, plan) ==
    [inputAmount |-> Digits(a), outputAmount |-> Digits(b),
     priceImpactPct |-> pi, routePlan |-> plan]

QuoteResponse(q) ==
    LET shape == q[1]
        a == q[2][1]
        b == q[2][2]
        pi == q[3]
        plan == q[4]
    IN CASE shape = "ok" ->
              HttpJson(StatusOk, Envelope("q1", QuoteData(a, b, pi, plan)))
         [] shape = "status500" ->
              HttpJson(500, Envelope("q1", QuoteData(a, b, pi, plan)))
         [] shape = "unsuccessful_data" ->
              HttpJson(StatusOk,
                       [id |-> "q1", success |-> FALSE,
                        data |-> QuoteData(a, b, pi, plan)])
         [] shape = "null_data" -> HttpJson(StatusOk, Envelope("q1", NullV))
         [] shape = "no_impact" ->
              HttpJson(StatusOk, Envelope("q1",
                  [inputAmount |-> Digits(a), outputAmount |-> Digits(b),
                   routePlan |-> plan]))
         [] shape = "no_plan" ->
              HttpJson(StatusOk, Envelope("q1",
                  [inputAmount |-> Digits(a), outputAmount |-> Digits(b),
                   priceImpactPct |-> pi]))
         [] shape = "no_output" ->
              HttpJson(StatusOk, Envelope("q1",
                  [inputAmount |-> Digits(a), priceImpactPct |-> pi,
                   routePlan |-> plan]))
         [] shape = "bad_hop" ->
              HttpJson(StatusOk, Envelope("q1",
                  QuoteData(a, b, pi, <<[inputMint |-> "mintA"]>>)))
         [] OTHER -> CommonResponse(shape, "q1")

\* Auto-fee endpoint ------------------------------------------------------
FeeShapes == {"error", "hang", "status500", "unsuccessful", "ok", "no_tier"}

FeeResponse(shape) ==
    CASE shape = "ok" ->
            HttpJson(StatusOk, Envelope("f1",
                [default |-> [m |-> "1000", h |-> "25000", vh |-> "90000"]]))
      [] shape = "no_tier" ->
            HttpJson(StatusOk, Envelope("f1", [default |-> [m |-> "1000"]]))
      [] OTHER -> CommonResponse(shape, "f1")

\* Transaction-build endpoint ---------------------------------------------
TrxShapes ==
    {"error", "hang", "status500", "unsuccessful", "ok", "no_transaction"}

TrxResponse(shape) ==
    CASE shape = "ok" ->
            HttpJson(StatusOk, Envelope("t1", [transaction |-> "AQAB-tx"]))
      [] shape = "no_transaction" ->
            HttpJson(StatusOk, Envelope("t1", [other |-> "x"]))
      [] OTHER -> CommonResponse(shape, "t1")

\* Pools-info endpoint ----------------------------------------------------
PoolsShapes == CommonShapes \cup {"ok"}

PoolsResponse(shape) ==
    CASE shape = "ok" ->
            HttpJson(StatusOk, Envelope("p1",
                <<[id |-> "poolA", type |-> "Concentrated"]>>))
      [] OTHER -> CommonResponse(shape, "p1")

\* RPC-list endpoint ------------------------------------------------------
RpcsShapes == CommonShapes \cup {"ok", "no_rpcs"}

RpcsResponse(shape) ==
    CASE shape = "ok" ->
            HttpJson(StatusOk, Envelope("r1",
                [rpcs |-> <<[url |-> "https://rpc", name |-> "Triton"]>>]))
      [] shape = "no_rpcs" ->
            HttpJson(StatusOk, Envelope("r1", [other |-> "x"]))
      [] OTHER -> CommonResponse(shape, "r1")

NotContacted == [kind |-> "unused"]

---------------------------------------------------------------------------
(* The HTTP library and the helpers *)

\* requests.get / requests.post: the request goes out; a transport error
\* raises; an endpoint that never answers raises Timeout when the call
\* passed timeout=, and otherwise the call never returns
Http(endpoint, method, args, resp) ==
    LET req == [endpoint |-> endpoint, method |-> method, args |-> args]
    IN CASE resp.kind = "error" -> Eff("raise", N, <<req>>, <<>>, <<>>)
         [] resp.kind = "hang" ->
              IF Has(args, "timeout")
              THEN Eff("raise", N, <<req>>, <<>>, <<>>)
              ELSE Eff("block", N, <<req>>, <<>>, <<>>)
         [] OTHER -> Eff("ok", V(resp), <<req>>, <<>>, <<>>)

\* Python truthiness of what an operation holds: False and None are falsy,
\* an empty list is falsy, a dict with keys or a non-empty list is truthy
Truthy(val) == val.t = "val" /\ val.v # <<>>

\* a slip: the status is not looked at
status_never_rejected(resp) == FALSE

\* `if not resp.status_code == 200`
status_rejected(resp) == resp.status_code # StatusOk

\* a slip: the success flag is not looked at
envelope_never_unsuccessful(resp_js) == FALSE

\* `if not resp_js["success"]`
envelope_unsuccessful(resp_js) == ~resp_js.success

\* RaydiumSwap._response_json
response_json(endpoint, resp) ==
    IF status_rejected(resp)
    THEN Eff("ok", F, <<>>, <<<<endpoint, "status_code">>>>,
             <<LogRec("error", "status_code")>>)
    ELSE IF ~Has(resp, "json")
    THEN Eff("raise", N, <<>>, <<<<endpoint, "status_code">>>>, <<>>)
    ELSE IF ~Has(resp.json, "success")
    THEN Eff("raise", N, <<>>,
             <<<<endpoint, "status_code">>, <<endpoint, "success">>>>, <<>>)
    ELSE IF envelope_unsuccessful(resp.json)
    THEN IF ~Has(resp.json, "id")
         THEN Eff("raise", N, <<>>,
                  <<<<endpoint, "status_code">>, <<endpoint, "success">>,
                    <<endpoint, "id">>>>, <<>>)
         ELSE Eff("ok", F, <<>>,
                  <<<<endpoint, "status_code">>, <<endpoint, "success">>,
                    <<endpoint, "id">>>>,
                  <<LogRec("error", "unsuccessful")>>)
    ELSE Eff("ok", V(resp.json), <<>>,
             <<<<endpoint, "status_code">>, <<endpoint, "success">>>>, <<>>)

\* resp_js["data"][key]: KeyError without "data", TypeError when data is
\* None, KeyError without key
DataField(endpoint, resp_js, key) ==
    IF ~Has(resp_js, "data")
    THEN Eff("raise", N, <<>>, <<<<endpoint, "data">>>>, <<>>)
    ELSE IF IsNull(resp_js.data) \/ ~Has(resp_js.data, key)
    THEN Eff("raise", N, <<>>,
             <<<<endpoint, "data">>, <<endpoint, "data." \o key>>>>, <<>>)
    ELSE Eff("ok", V(resp_js.data[key]), <<>>,
             <<<<endpoint, "data">>, <<endpoint, "data." \o key>>>>, <<>>)

\* `if resp_js["data"] is None: return False`, then Rest
DataNotNone(resp_js, Rest) ==
    IF ~Has(resp_js, "data")
    THEN Eff("raise", N, <<>>, <<<<"quote", "data">>>>, <<>>)
    ELSE IF IsNull(resp_js.data)
    THEN Eff("ok", F, <<>>, <<<<"quote", "data">>>>, <<>>)
    ELSE WithRead(Rest, "quote", "data")

\* `if pi > self._price_impact_max` of _compute_routes
route_over_ceiling(pi, max) == pi > max

\* a slip: the ceiling blocks in _compute_routes as well
quote_result_blocking(resp_js, pi, max) ==
    IF route_over_ceiling(pi, max)
    THEN Eff("ok", F, <<>>, <<>>, <<LogRec("warning", "price_impact")>>)
    ELSE Eff("ok", V(resp_js), <<>>, <<>>, <<>>)

\* the end of _compute_routes: warn above the ceiling, return the envelope
quote_result(resp_js, pi, max) ==
    Eff("ok", V(resp_js), <<>>, <<>>,
        IF route_over_ceiling(pi, max)
        THEN <<LogRec("warning", "price_impact")>> ELSE <<>>)

QuoteArgs(input_mint, output_mint, amount_in, bps, tmo) ==
    [params |-> [inputMint |-> input_mint, outputMint |-> output_mint,
                 amount |-> amount_in, slippageBps |-> bps,
                 txVersion |-> "V0"],
     timeout |-> tmo]

\* RaydiumSwap._compute_routes
compute_routes(input_mint, output_mint, amount_in, cfg, quote) ==
    Except(
      Then(Http("quote", "GET",
                QuoteArgs(input_mint, output_mint, amount_in,
                          cfg.slippage_bps, cfg.timeout), quote),
           LAMBDA resp :
      Then(response_json("quote", resp.v), LAMBDA resp_js :
        IF ~Truthy(resp_js) THEN Ok(F)
        ELSE Then(DataField("quote", resp_js.v, "priceImpactPct"),
                  LAMBDA pi :
                    quote_result(resp_js.v, pi.v, cfg.price_impact_max)))),
      "_compute_routes")

---------------------------------------------------------------------------
(* get_price *)

\* `if not resp_js` after _compute_routes
no_quote(val) == ~Truthy(val)

RECURSIVE DigitsValue(_)
\* float() of a decimal string, the string given as its digits
DigitsValue(ds) ==
    IF ds = <<>> THEN 0
    ELSE 10 * DigitsValue(SubSeq(ds, 1, Len(ds) - 1)) + ds[Len(ds)]

RECURSIVE Gcd(_, _)
Gcd(a, b) == IF b = 0 THEN a ELSE Gcd(b, a % b)

\* a slip: the quotient taken the other way round
price_inverted(in_amm, out_amm) ==
    <<out_amm \div Gcd(in_amm, out_amm), in_amm \div Gcd(in_amm, out_amm)>>

\* in_amm / out_amm, out_amm # 0: the quotient as a reduced fraction
price(in_amm, out_amm) ==
    <<in_amm \div Gcd(in_amm, out_amm), out_amm \div Gcd(in_amm, out_amm)>>

\* the division of get_price: ZeroDivisionError on a zero divisor
divide(in_amm, out_amm) ==
    IF out_amm = 0 THEN Raise ELSE Ok(V(price(in_amm, out_amm)))

\* RaydiumSwap.get_price
get_price(input_mint, output_mint, amount_in, cfg, quote) ==
    Except(
      Then(compute_routes(input_mint, output_mint, amount_in, cfg, quote),
           LAMBDA resp_js :
        IF no_quote(resp_js) THEN Ok(F)
        ELSE DataNotNone(resp_js.v,
          Then(DataField("quote", resp_js.v, "inputAmount"), LAMBDA a :
          Then(DataField("quote", resp_js.v, "outputAmount"), LAMBDA b :
            divide(DigitsValue(a.v), DigitsValue(b.v)))))),
      "get_price")

---------------------------------------------------------------------------
(* get_routes, get_pools_info, get_rpcs *)

\* RaydiumSwap.get_routes
get_routes(input_mint, output_mint, amount_in, cfg, quote) ==
    Except(
      Then(compute_routes(input_mint, output_mint, amount_in, cfg, quote),
           LAMBDA resp_js :
        IF no_quote(resp_js) THEN Ok(F)
        ELSE DataNotNone(resp_js.v,
                         DataField("quote", resp_js.v, "routePlan"))),
      "get_routes")

\* a slip: a pool id is collected once, at its first hop
pool_ids_deduplicated(routes) ==
    LET firsts == {i \in 1..Len(routes) :
                     \A j \in 1..(i - 1) : routes[j].poolId # routes[i].poolId}
        Ids[n \in 0..Len(routes)] ==
            IF n = 0 THEN <<>>
            ELSE IF n \in firsts THEN Append(Ids[n - 1], routes[n].poolId)
            ELSE Ids[n - 1]
    IN Ids[Len(routes)]

\* the loop `for route in routes: ids.append(route["poolId"])`
pool_ids(routes) == [i \in 1..Len(routes) |-> routes[i].poolId]

RECURSIVE Join(_, _)
\* sep.join(strs)
Join(strs, sep) ==
    IF strs = <<>> THEN ""
    ELSE IF Len(strs) = 1 THEN strs[1]
    ELSE strs[1] \o sep \o Join(Tail(strs), sep)

\* `ids_str = ", ".join(ids)`
ids_str(ids) == Join(ids, ", ")

\* collecting the ids: KeyError at the first hop without a poolId
collect_ids(routes) ==
    IF \E i \in 1..Len(routes) : ~Has(routes[i], "poolId")
    THEN Eff("raise", N, <<>>, <<<<"quote", "data.routePlan.poolId">>>>, <<>>)
    ELSE Eff("ok", V(pool_ids(routes)), <<>>,
             <<<<"quote", "data.routePlan.poolId">>>>, <<>>)

\* resp_js["data"] of a validated envelope
EnvelopeData(endpoint, resp_js) ==
    IF ~Has(resp_js, "data")
    THEN Eff("raise", N, <<>>, <<<<endpoint, "data">>>>, <<>>)
    ELSE Eff("ok", V(resp_js.data), <<>>, <<<<endpoint, "data">>>>, <<>>)

\* RaydiumSwap.get_pools_info
get_pools_info(input_mint, output_mint, amount_in, cfg, quote, pools) ==
    Except(
      Then(get_routes(input_mint, output_mint, amount_in, cfg, quote),
           LAMBDA routes :
        IF ~Truthy(routes) THEN Ok(F)
        ELSE Then(collect_ids(routes.v), LAMBDA ids :
             Then(Http("pools", "GET",
                       [params |-> [ids |-> ids_str(ids.v)]], pools),
                  LAMBDA resp :
             Then(response_json("pools", resp.v), LAMBDA resp_js :
               IF ~Truthy(resp_js) THEN Ok(F)
               ELSE EnvelopeData("pools", resp_js.v))))),
      "get_pools_info")

\* RaydiumSwap.get_rpcs
get_rpcs(rpcs) ==
    Except(
      Then(Http("rpcs", "GET", [params |-> <<>>], rpcs), LAMBDA resp :
      Then(response_json("rpcs", resp.v), LAMBDA resp_js :
        IF ~Truthy(resp_js) THEN Ok(F)
        ELSE DataField("rpcs", resp_js.v, "rpcs"))),
      "get_rpcs")

---------------------------------------------------------------------------
(* generate_transaction *)

Addresses == {"wallet1", "mintA", "mintB"}
NotBase58 == "not-base58"

\* Pubkey.from_string: raises on a string that is no public key
pubkey_from_string(s) == IF s \in Addresses THEN Ok(V(s)) ELSE Raise

\* get_associated_token_address: a pure function of wallet and mint
get_associated_token_address(wallet, mint) ==
    "ata(" \o wallet \o "," \o mint \o ")"

\* a slip: the ceiling is not enforced in generate_transaction
tx_ceiling_unchecked(pi, max) == FALSE

\* `if pi > self._price_impact_max: return False` of generate_transaction
tx_over_ceiling(pi, max) == pi > max

\* resp_js["data"]["default"][select] of the auto-fee envelope
FeeTier(resp_js, select) ==
    IF Has(resp_js, "data") /\ ~IsNull(resp_js.data)
       /\ Has(resp_js.data, "default") /\ Has(resp_js.data.default, select)
    THEN Eff("ok", V(resp_js.data.default[select]), <<>>,
             <<<<"fee", "data">>, <<"fee", "data.default">>>>, <<>>)
    ELSE Eff("raise", N, <<>>,
             <<<<"fee", "data">>, <<"fee", "data.default">>>>, <<>>)

\* the body of _unit_price_micro_lamports, `select` bound
unit_price_micro_lamports(select, fee) ==
    Then(Http("fee", "GET", [params |-> <<>>], fee), LAMBDA sent :
      IF sent.v.status_code # StatusOk
      THEN Eff("ok", F, <<>>, <<<<"fee", "status_code">>>>, <<>>)
      ELSE IF ~Has(sent.v, "json")
      THEN Eff("raise", N, <<>>, <<<<"fee", "status_code">>>>, <<>>)
      ELSE IF ~Has(sent.v.json, "success")
      THEN Eff("raise", N, <<>>,
               <<<<"fee", "status_code">>, <<"fee", "success">>>>, <<>>)
      ELSE IF ~sent.v.json.success
      THEN Eff("ok", F, <<>>,
               <<<<"fee", "status_code">>, <<"fee", "success">>>>, <<>>)
      ELSE WithRead(WithRead(FeeTier(sent.v.json, select), "fee", "success"),
                    "fee", "status_code"))

\* the positional parameters `def _unit_price_micro_lamports(select="h")`
\* declares
unit_price_parameters == <<"select">>

\* `self._unit_price_micro_lamports("h")`: a call on the instance passes the
\* instance first; more arguments than parameters is a TypeError
call_unit_price_micro_lamports(fee) ==
    LET passed == <<"self", "h">>
    IN IF Len(passed) > Len(unit_price_parameters)
       THEN Raise
       ELSE unit_price_micro_lamports(passed[1], fee)

\* `if not priority_fee: priority_fee = "15000"`
priority_fee(val) == IF val.t = "val" /\ val.v # "" THEN val.v ELSE DefaultFee

Payload(wallet, input_ata, output_ata, fee, compute) ==
    [wallet |-> wallet, inputAccount |-> input_ata,
     outputAccount |-> output_ata, txVersion |-> "V0", wrapSol |-> TRUE,
     unwrapSol |-> TRUE, computeUnitPriceMicroLamports |-> fee,
     swapResponse |-> compute]

\* RaydiumSwap.generate_transaction
generate_transaction(input_mint, output_mint, wallet_pub_key, amount_in, cfg, quote, fee, trx) ==
    Except(
      Then(pubkey_from_string(wallet_pub_key), LAMBDA wallet :
      Then(pubkey_from_string(input_mint), LAMBDA in_mint :
      Then(pubkey_from_string(output_mint), LAMBDA out_mint :
      Then(compute_routes(input_mint, output_mint, amount_in, cfg, quote),
           LAMBDA compute :
        IF no_quote(compute) THEN Ok(F)
        ELSE Then(DataField("quote", compute.v, "priceImpactPct"),
                  LAMBDA pi :
          IF tx_over_ceiling(pi.v, cfg.price_impact_max) THEN Ok(F)
          ELSE Then(call_unit_price_micro_lamports(fee), LAMBDA unit_price :
               Then(Http("trx", "POST",
                         [json |-> Payload(wallet.v,
                              get_associated_token_address(wallet.v,
                                                           in_mint.v),
                              get_associated_token_address(wallet.v,
                                                           out_mint.v),
                              priority_fee(unit_price), compute.v),
                          timeout |-> cfg.timeout], trx),
                    LAMBDA resp :
               Then(response_json("trx", resp.v), LAMBDA resp_js :
                 IF ~Truthy(resp_js) THEN Ok(F)
                 ELSE DataField("trx", resp_js.v, "transaction"))))))))),
      "generate_transaction")

---------------------------------------------------------------------------
(* The state machine: the client is constructed, then operations are      *)
(* called one at a time; the caller takes the result before the next call. *)

Config == [price_impact_max |-> price_impact_max,
           slippage_bps |-> slippage_bps, timeout |-> timeout]

NoCall == [op |-> "none"]
Unset == [t |-> "unset"]

\* RaydiumSwap.__init__
Init ==
    /\ price_impact_max \in PriceImpactMaxChoices
    /\ slippage_bps = DefaultSlippageBps
    /\ timeout = DefaultTimeout
    /\ pc = "idle"
    /\ call = NoCall
    /\ net = [quote |-> NotContacted, fee |-> NotContacted,
              trx |-> NotContacted, pools |-> NotContacted,
              rpcs |-> NotContacted]
    /\ ret = Unset
    /\ requests = <<>>
    /\ reads = <<>>
    /\ logs = <<>>
    /\ compute_resp = Unset
    /\ prev = [op |-> "none", t |-> "unset"]

\* the call ran to its end with effect e (or blocked for ever)
Ran(c, n, e, computed) ==
    /\ pc' = IF e.mode = "block" THEN "blocked" ELSE "done"
    /\ call' = c
    /\ net' = n
    /\ ret' = IF e.mode = "block" THEN Unset ELSE e.val
    /\ requests' = e.reqs
    /\ reads' = e.reads
    /\ logs' = e.logs
    /\ compute_resp' = computed
    /\ UNCHANGED <<price_impact_max, slippage_bps, timeout, prev>>

Mints == {<<"mintA", "mintB">>, <<NotBase58, "mintB">>, <<"mintA", NotBase58>>}
Wallets == {"wallet1", NotBase58}

Net(quote, fee, trx, pools, rpcs) ==
    [quote |-> quote, fee |-> fee, trx |-> trx, pools |-> pools, rpcs |-> rpcs]

GenerateTransaction ==
    /\ pc = "idle"
    /\ \E m \in Mints, w \in Wallets, q \in QuoteInputs,
          f \in FeeShapes, t \in TrxShapes :
         LET quote == QuoteResponse(q)
             fee == FeeResponse(f)
             trx == TrxResponse(t)
         IN Ran([op |-> "generate_transaction", input_mint |-> m[1],
                 output_mint |-> m[2], wallet_pub_key |-> w,
                 amount_in |-> DefaultAmountIn],
                Net(quote, fee, trx, NotContacted, NotContacted),
                generate_transaction(m[1], m[2], w, DefaultAmountIn, Config,
                                     quote, fee, trx),
                IF w \in Addresses /\ m[1] \in Addresses /\ m[2] \in Addresses
                THEN compute_routes(m[1], m[2], DefaultAmountIn, Config,
                                    quote).val
                ELSE Unset)

GetPrice ==
    /\ pc = "idle"
    /\ \E m \in Mints, q \in QuoteInputs :
         LET quote == QuoteResponse(q)
         IN Ran([op |-> "get_price", input_mint |-> m[1],
                 output_mint |-> m[2], amount_in |-> DefaultAmountIn],
                Net(quote, NotContacted, NotContacted, NotContacted,
                    NotContacted),
                get_price(m[1], m[2], DefaultAmountIn, Config, quote),
                compute_routes(m[1], m[2], DefaultAmountIn, Config, quote).val)

GetRoutes ==
    /\ pc = "idle"
    /\ \E m \in Mints, q \in QuoteInputs :
         LET quote == QuoteResponse(q)
         IN Ran([op |-> "get_routes", input_mint |-> m[1],
                 output_mint |-> m[2], amount_in |-> DefaultAmountIn],
                Net(quote, NotContacted, NotContacted, NotContacted,
                    NotContacted),
                get_routes(m[1], m[2], DefaultAmountIn, Config, quote),
                compute_routes(m[1], m[2], DefaultAmountIn, Config, quote).val)

GetPoolsInfo ==
    /\ pc = "idle"
    /\ \E m \in Mints, q \in QuoteInputs, p \in PoolsShapes :
         LET quote == QuoteResponse(q)
             pools == PoolsResponse(p)
         IN Ran([op |-> "get_pools_info", input_mint |-> m[1],
                 output_mint |-> m[2], amount_in |-> DefaultAmountIn],
                Net(quote, NotContacted, NotContacted, pools, NotContacted),
                get_pools_info(m[1], m[2], DefaultAmountIn, Config, quote,
                               pools),
                compute_routes(m[1], m[2], DefaultAmountIn, Config, quote).val)

GetRpcs ==
    /\ pc = "idle"
    /\ \E r \in RpcsShapes :
         LET rpcs == RpcsResponse(r)
         IN Ran([op |-> "get_rpcs"],
                Net(NotContacted, NotContacted, NotContacted, NotContacted,
                    rpcs),
                get_rpcs(rpcs), Unset)

\* the caller takes the result; nothing of the call is kept by the client
Return ==
    /\ pc = "done"
    /\ pc' = "idle"
    /\ prev' = [op |-> call.op, t |-> ret.t]
    /\ call' = NoCall
    /\ net' = Net(NotContacted, NotContacted, NotContacted, NotContacted,
                  NotContacted)
    /\ ret' = Unset
    /\ requests' = <<>>
    /\ reads' = <<>>
    /\ logs' = <<>>
    /\ compute_resp' = Unset
    /\ UNCHANGED <<price_impact_max, slippage_bps, timeout>>

Next ==
    \/ GenerateTransaction
    \/ GetPrice
    \/ GetRoutes
    \/ GetPoolsInfo
    \/ GetRpcs
    \/ Return

Spec == Init /\ [][Next]_vars

---------------------------------------------------------------------------
(* Vocabulary of the properties *)

Endpoints == {"quote", "fee", "trx", "pools", "rpcs"}
QuoteOps == {"get_price", "get_routes", "get_pools_info"}

Called(o) == pc # "idle" /\ call.op = o
Returned(o) == pc = "done" /\ call.op = o

\* status 200 and a decoded envelope with success = true
Accepted(r) ==
    /\ r.kind = "http"
    /\ r.status_code = StatusOk
    /\ Has(r, "json")
    /\ Has(r.json, "success")
    /\ r.json.success

\* answered, and rejected by its status or by its success flag
Rejected(r) ==
    /\ r.kind = "http"
    /\ \/ r.status_code # StatusOk
       \/ Has(r, "json") /\ Has(r.json, "success") /\ ~r.json.success

HasData(r) == Has(r.json, "data") /\ ~IsNull(r.json.data)

\* the quote is accepted and carries a price impact
QuoteWithImpact ==
    /\ Accepted(net.quote)
    /\ HasData(net.quote)
    /\ Has(net.quote.json.data, "priceImpactPct")

QuoteImpact == net.quote.json.data.priceImpactPct

AddressesParse ==
    {call.wallet_pub_key, call.input_mint, call.output_mint} \subseteq Addresses

RequestsTo(e) == {i \in 1..Len(requests) : requests[i].endpoint = e}
FieldsRead(e) == {reads[i][2] : i \in {j \in 1..Len(reads) : reads[j][1] = e}}
Logged(level) == \E i \in 1..Len(logs) : logs[i].level = level

---------------------------------------------------------------------------
(* C1: a call of generate_transaction with three parseable addresses whose *)
(* quote is accepted with a price impact strictly above price_impact_max   *)
(* returns False, and sends no POST to the transaction-build endpoint: the *)
(* quote GET is the only request of the call.                              *)
C1_CeilingBlocksTransaction ==
    (/\ Called("generate_transaction")
     /\ AddressesParse
     /\ QuoteWithImpact
     /\ QuoteImpact > price_impact_max)
    => /\ pc = "done"
       /\ ret.t = "False"
       /\ \A i \in 1..Len(requests) : requests[i].method # "POST"
       /\ RequestsTo("trx") = {}
       /\ RequestsTo("quote") = {1}

C1_Witness ==
    /\ Returned("generate_transaction")
    /\ AddressesParse
    /\ QuoteWithImpact
    /\ QuoteImpact > price_impact_max
    /\ net.trx.kind = "http"
    /\ Accepted(net.trx)
    /\ ret.t = "False"

---------------------------------------------------------------------------
(* C2: in generate_transaction, when the quote is accepted with a price    *)
(* impact not above the ceiling and the auto-fee lookup fails (transport   *)
(* error, status other than 200, success = false, no usable value), the    *)
(* transaction-build POST is sent with computeUnitPriceMicroLamports =     *)
(* "15000".                                                                *)
FeeLookupFails ==
    \/ net.fee.kind = "error"
    \/ Rejected(net.fee)
    \/ /\ Accepted(net.fee)
       /\ ~(HasData(net.fee) /\ Has(net.fee.json.data, "default")
            /\ Has(net.fee.json.data.default, "h"))

QuotePassesCeiling ==
    /\ AddressesParse
    /\ QuoteWithImpact
    /\ QuoteImpact <= price_impact_max

C2_FeeFallbackApplied ==
    (/\ Called("generate_transaction")
     /\ QuotePassesCeiling
     /\ FeeLookupFails)
    => \E i \in RequestsTo("trx") :
          /\ requests[i].method = "POST"
          /\ requests[i].args.json.computeUnitPriceMicroLamports = DefaultFee

---------------------------------------------------------------------------
(* C3: a call of generate_transaction whose addresses parse, whose quote   *)
(* is accepted with a price impact not above the ceiling and whose         *)
(* transaction-build answer is accepted sends the POST with the quote      *)
(* envelope as swapResponse and returns data.transaction of the answer.    *)
TransactionBuilt ==
    /\ Accepted(net.trx)
    /\ HasData(net.trx)
    /\ Has(net.trx.json.data, "transaction")

C3_TransactionReturned ==
    (/\ Returned("generate_transaction")
     /\ QuotePassesCeiling
     /\ TransactionBuilt)
    => /\ \E i \in RequestsTo("trx") :
             /\ requests[i].method = "POST"
             /\ requests[i].args.json.swapResponse = net.quote.json
       /\ ret.t = "val"
       /\ ret.v = net.trx.json.data.transaction

---------------------------------------------------------------------------
(* C4: when the quote request fails at transport level (an error, or no    *)
(* answer within the timeout), is answered with a status other than 200,   *)
(* or with success = false, get_price, get_routes and get_pools_info       *)
(* return False, and get_pools_info sends no pools-info request.           *)
QuoteFails ==
    \/ net.quote.kind \in {"error", "hang"}
    \/ Rejected(net.quote)

C4_QuoteFailureIsFalse ==
    (call.op \in QuoteOps /\ pc # "idle" /\ QuoteFails)
    => /\ pc = "done"
       /\ ret.t = "False"
       /\ RequestsTo("pools") = {}

C4_Witness ==
    /\ Returned("get_pools_info")
    /\ Rejected(net.quote)
    /\ net.quote.status_code = StatusOk
    /\ HasData(net.quote)
    /\ Accepted(net.pools)
    /\ ret.t = "False"

---------------------------------------------------------------------------
(* C5: for an accepted quote with a non-empty route plan, get_pools_info   *)
(* sends exactly one pools-info GET, whose `ids` parameter lists the       *)
(* poolId of every hop, in route-plan order, repeated ids kept, separated  *)
(* by a comma and a space.                                                 *)
RECURSIVE IdList(_)
\* the ids of a non-empty plan, written out hop after hop
IdList(plan) ==
    IF Len(plan) = 1 THEN plan[1].poolId
    ELSE IdList(SubSeq(plan, 1, Len(plan) - 1)) \o ", "
         \o plan[Len(plan)].poolId

QuoteWithRoute ==
    /\ QuoteWithImpact
    /\ Has(net.quote.json.data, "routePlan")
    /\ net.quote.json.data.routePlan # <<>>
    /\ \A i \in 1..Len(net.quote.json.data.routePlan) :
          Has(net.quote.json.data.routePlan[i], "poolId")

C5_PoolIdsInRouteOrder ==
    (Called("get_pools_info") /\ QuoteWithRoute)
    => /\ Cardinality(RequestsTo("pools")) = 1
       /\ \A i \in RequestsTo("pools") :
             /\ requests[i].method = "GET"
             /\ requests[i].args.params.ids
                  = IdList(net.quote.json.data.routePlan)

C5_Witness ==
    /\ Returned("get_pools_info")
    /\ QuoteWithRoute
    /\ net.quote.json.data.routePlan = <<Hop("poolB"), Hop("poolB")>>
    /\ \E i \in RequestsTo("pools") :
          requests[i].args.params.ids = "poolB, poolB"
    /\ ret.t = "val"

---------------------------------------------------------------------------
(* C6: every failure of an operation yields one and the same return value: *)
(* two failing executions of the same operation never return different     *)
(* values (False in one, None in the other).                               *)
FailureKinds == {"False", "None"}

C6_UniformFailure ==
    (/\ pc = "done"
     /\ prev.op = call.op
     /\ prev.t \in FailureKinds
     /\ ret.t \in FailureKinds)
    => ret.t = prev.t

---------------------------------------------------------------------------
(* C7: for an accepted quote with inputAmount = a and outputAmount = b,    *)
(* b # 0, get_price returns a / b on the raw amounts (125 for              *)
(* a = 1_000_000_000 and b = 8_000_000), whether or not the price impact   *)
(* is above the ceiling.                                                   *)
QuoteWithAmounts(a, b) ==
    /\ QuoteWithImpact
    /\ Has(net.quote.json.data, "inputAmount")
    /\ Has(net.quote.json.data, "outputAmount")
    /\ net.quote.json.data.inputAmount = Digits(a)
    /\ net.quote.json.data.outputAmount = Digits(b)

C7_PriceIsRawRatio ==
    /\ \A ap \in AmountPairs :
          (Called("get_price") /\ QuoteWithAmounts(ap[1], ap[2]) /\ ap[2] # 0)
          => /\ pc = "done"
             /\ ret.t = "val"
             /\ ret.v[2] > 0
             /\ ret.v[1] * ap[2] = ap[1] * ret.v[2]
    /\ (Called("get_price") /\ QuoteWithAmounts(1000000000, 8000000))
          => (ret.t = "val" /\ ret.v = <<125, 1>>)

C7_Witness ==
    /\ Returned("get_price")
    /\ QuoteWithAmounts(1000000000, 8000000)
    /\ QuoteImpact > price_impact_max
    /\ ret = V(<<125, 1>>)

---------------------------------------------------------------------------
(* C8: a response is accepted only with status 200 and success = true; a   *)
(* response with another status or with success false is rejected without  *)
(* any further field of it being read, and no field of a response is read  *)
(* before that check has passed.                                           *)
CheckFields == {"status_code", "success"}

\* the i-th read comes after the reads of the status and of the flag
AfterCheck(i) ==
    /\ \E j \in 1..(i - 1) : reads[j] = <<reads[i][1], "status_code">>
    /\ \E j \in 1..(i - 1) : reads[j] = <<reads[i][1], "success">>

C8_NothingReadOfARejectedResponse ==
    pc # "idle" =>
      \A i \in 1..Len(reads) :
         reads[i][2] \notin CheckFields
         => Accepted(net[reads[i][1]]) /\ AfterCheck(i)

\* as amended: of a rejected response the `id` alone is read, for the log
\* record of an envelope with success false
C8_OnlyIdReadOfARejectedResponse ==
    pc # "idle" =>
      /\ \A i \in 1..Len(reads) :
            reads[i][2] \notin CheckFields \cup {"id"}
            => Accepted(net[reads[i][1]]) /\ AfterCheck(i)
      /\ \A i \in 1..Len(reads) :
            reads[i][2] = "id"
            => /\ Rejected(net[reads[i][1]])
               /\ net[reads[i][1]].status_code = StatusOk
               /\ AfterCheck(i)
               /\ i = Len(reads)
      /\ \A e \in Endpoints :
            (net[e].kind = "http" /\ net[e].status_code # StatusOk)
            => FieldsRead(e) \subseteq {"status_code"}
      /\ \A i \in 1..Len(reads) :
            reads[i][2] = "success"
            => \E j \in 1..(i - 1) : reads[j] = <<reads[i][1], "status_code">>

C8_Witness ==
    /\ Returned("get_price")
    /\ Rejected(net.quote)
    /\ net.quote.status_code = StatusOk
    /\ HasData(net.quote)
    /\ FieldsRead("quote") = {"status_code", "success", "id"}
    /\ ret.t = "False"

---------------------------------------------------------------------------
(* C9: every request an operation sends is bounded by the configured       *)
(* timeout, so that an operation whose endpoint never answers ends, with   *)
(* the failure indicator.                                                  *)
C9_EveryRequestBounded ==
    /\ \A e \in Endpoints :
          (pc # "idle" /\ net[e].kind = "hang" /\ RequestsTo(e) # {})
          => pc = "done" /\ ret.t \in FailureKinds
    /\ \A i \in 1..Len(requests) :
          /\ Has(requests[i].args, "timeout")
          /\ requests[i].args.timeout = timeout

---------------------------------------------------------------------------
(* C10: for a quote accepted with a price impact above price_impact_max,   *)
(* _compute_routes logs a warning and returns the whole envelope (id       *)
(* included); get_price and get_routes return their normal result, and     *)
(* get_pools_info sends its request; generate_transaction alone fails on   *)
(* the ceiling.                                                            *)
OverCeiling == QuoteWithImpact /\ QuoteImpact > price_impact_max

C10_CeilingOnlyWarnsInQuote ==
    (pc # "idle" /\ call.op # "get_rpcs" /\ OverCeiling
     /\ (call.op = "generate_transaction" => AddressesParse))
    => /\ compute_resp.t = "val"
       /\ compute_resp.v = net.quote.json
       /\ Has(compute_resp.v, "id")
       /\ \E i \in 1..Len(logs) : logs[i] = LogRec("warning", "price_impact")
       /\ (call.op = "get_routes" /\ Has(net.quote.json.data, "routePlan"))
            => ret = V(net.quote.json.data.routePlan)
       /\ (call.op = "get_price" /\ QuoteWithAmounts(1000000000, 8000000))
            => ret = V(<<125, 1>>)
       /\ (call.op = "get_pools_info" /\ QuoteWithRoute)
            => RequestsTo("pools") # {}
       /\ call.op = "generate_transaction" => ret.t = "False"

C10_Witness ==
    /\ Returned("get_routes")
    /\ OverCeiling
    /\ QuoteWithRoute
    /\ compute_resp.v = net.quote.json
    /\ ret = V(net.quote.json.data.routePlan)
    /\ Logged("warning")

=============================================================================
